---- MODULE Spec2Model ----
(***************************************************************************)
(* Model of the chat client's streaming core:                              *)
(*   - ChatInterface.handleSend (src/components/ChatMessageItem.tsx,       *)
(*     lines 374-466): the isLoading guard, the user message, the call to  *)
(*     the transport, the merge loop over the parts of every chunk, the    *)
(*     setMessages updater, the catch and the finally block;               *)
(*   - ChatInterface.clearChat (lines 472-474);                            *)
(*   - ChatMessageItem.renderPart (lines 89-188): the classification of a  *)
(*     part by the first branch that renders it;                           *)
(*   - ChatInput.handleSubmit (src/unnamed/part_000, lines 20-30).         *)
(*   - sendMessageStream (src/services/gemini.ts, lines 26-45): the parts  *)
(*     of the request, with the attached image.                            *)
(*                                                                         *)
(* JavaScript values are encoded as tuples of strings, so that any two of  *)
(* them can be compared:                                                   *)
(*   undefined              << >>                                          *)
(*   a string s             <<"string", s>>                                *)
(*   true / false           <<"boolean", "true">> / <<"boolean", "false">> *)
(*   an object              <<"object", field, field>>                     *)
(* A Part is a record of the five fields the code reads; a field that is   *)
(* not present holds undefined.                                            *)
(***************************************************************************)
EXTENDS Naturals, Sequences, FiniteSets, TLC

VARIABLES
    messages,        \* useState<ChatMessage[]>: the conversation
    isLoading,       \* useState(false): a turn is in progress
    turns,           \* one record per accepted call of handleSend
    now,             \* the value Date.now() returns
    transportCalls   \* number of calls of sendMessageStream made so far

vars == <<messages, isLoading, turns, now, transportCalls>>

(***************************************************************************)
(* Bounds of the explored runs.                                            *)
(***************************************************************************)
MaxTurns == 2        \* Spec: accepted submissions
MaxChunks == 3       \* Spec: chunks the streams deliver in all
MaxNow == 2          \* Spec: largest clock value
AccMaxChunks == 3    \* SpecAcc: chunks the stream delivers
AccMaxParts == 3     \* SpecAcc: parts the stream delivers in all
ShapeMaxChunks == 1  \* SpecShapes: chunks the stream delivers, of one part
ImgMaxTurns == 1     \* SpecImage: accepted submissions
ImgMaxChunks == 1    \* SpecImage: chunks a stream delivers
LiveMaxTurns == 2    \* SpecLive: accepted submissions
LiveMaxChunks == 1   \* SpecLive: chunks a stream delivers

(***************************************************************************)
(* JavaScript values.                                                      *)
(***************************************************************************)
Undef == << >>

Str(s) == <<"string", s>>

True == <<"boolean", "true">>

False == <<"boolean", "false">>

Obj(a, b) == <<"object", a, b>>

IsString(v) == v # Undef /\ v[1] = "string"

StrOf(v) == v[2]

\* ToBoolean: undefined, "" and false are falsy; every object is truthy.
Truthy(v) == v # Undef /\ v # Str("") /\ v # False

(***************************************************************************)
(* Parts (src/types.ts, ExtendedPart).                                     *)
(***************************************************************************)
NoFields ==
    [text |-> Undef, thought |-> Undef, executableCode |-> Undef,
     codeExecutionResult |-> Undef, inlineData |-> Undef]

TextPart(s) == [NoFields EXCEPT !.text = Str(s)]

ThoughtFlagPart(s) == [NoFields EXCEPT !.thought = True, !.text = Str(s)]

ThoughtStringPart(s) == [NoFields EXCEPT !.thought = Str(s)]

CodePart(lang, code) == [NoFields EXCEPT !.executableCode = Obj(lang, code)]

ResultPart(outcome, output) ==
    [NoFields EXCEPT !.codeExecutionResult = Obj(outcome, output)]

ImagePart(mime, data) == [NoFields EXCEPT !.inlineData = Obj(mime, data)]

(***************************************************************************)
(* renderPart (ChatMessageItem, lines 89-188): the kind of a part is the   *)
(* first branch that returns an element; "null" is the final return null.  *)
(***************************************************************************)
\* line 92: part.thought === true || typeof part.thought === 'string'
isThought(part) == part.thought = True \/ IsString(part.thought)

\* A variant of renderPart that tests part.text before part.executableCode.
renderPartTextFirst(part) ==
    IF isThought(part) THEN "Thought"
    ELSE IF Truthy(part.text) THEN "Text"
    ELSE IF Truthy(part.executableCode) THEN "ExecutableCode"
    ELSE IF Truthy(part.codeExecutionResult) THEN "CodeExecutionResult"
    ELSE IF Truthy(part.inlineData) THEN "InlineImage"
    ELSE "null"

renderPart(part) ==
    IF isThought(part) THEN "Thought"
    ELSE IF Truthy(part.executableCode) THEN "ExecutableCode"
    ELSE IF Truthy(part.codeExecutionResult) THEN "CodeExecutionResult"
    ELSE IF Truthy(part.text) THEN "Text"
    ELSE IF Truthy(part.inlineData) THEN "InlineImage"
    ELSE "null"

(***************************************************************************)
(* The merge loop of handleSend (lines 416-434).                           *)
(***************************************************************************)
\* A variant of isSameType that forgets the checks of thought on the text side.
isSameTypeAnyText(lastPart, incoming) ==
    /\ lastPart # << >>
    /\ LET last == lastPart[1] IN
       \/ /\ Truthy(incoming.text)
          /\ Truthy(last.text)
          /\ ~Truthy(incoming.executableCode)
          /\ ~Truthy(last.executableCode)
       \/ /\ Truthy(incoming.thought)
          /\ Truthy(last.thought)

\* lines 421-425: lastPart && ((text && text && no thought && no code) ||
\*                             (incoming.thought && lastPart.thought)).
\* lastPart is passed as << >> when the list is empty (undefined in the code)
\* and as <<part>> otherwise.
isSameType(lastPart, incoming) ==
    /\ lastPart # << >>
    /\ LET last == lastPart[1] IN
       \/ /\ Truthy(incoming.text)
          /\ Truthy(last.text)
          /\ ~Truthy(incoming.thought)
          /\ ~Truthy(last.thought)
          /\ ~Truthy(incoming.executableCode)
          /\ ~Truthy(last.executableCode)
       \/ /\ Truthy(incoming.thought)
          /\ Truthy(last.thought)

\* A variant of appendText that assigns the incoming text instead of adding it.
appendTextReplacing(lastPart, incoming) ==
    IF Truthy(incoming.text)
    THEN [lastPart EXCEPT !.text = incoming.text]
    ELSE lastPart

\* lines 428-430: if (incoming.text) lastPart.text = (lastPart.text || "") + incoming.text
appendText(lastPart, incoming) ==
    IF Truthy(incoming.text)
    THEN [lastPart EXCEPT !.text =
             Str((IF Truthy(lastPart.text) THEN StrOf(lastPart.text) ELSE "")
                 \o StrOf(incoming.text))]
    ELSE lastPart

\* A variant of mergePart that skips a part none of whose five fields is set.
mergePartSkippingUnknown(accumulatedParts, incoming) ==
    LET n == Len(accumulatedParts)
        lastPart == IF n > 0 THEN <<accumulatedParts[n]>> ELSE << >>
    IN  IF incoming = NoFields
        THEN accumulatedParts
        ELSE IF isSameType(lastPart, incoming)
        THEN [accumulatedParts EXCEPT ![n] = appendText(lastPart[1], incoming)]
        ELSE Append(accumulatedParts, incoming)

\* A variant of mergePart that skips a part with nothing to show (no truthy
\* field), as a loop starting with "if (!incoming.text && ...) continue" would.
mergePartSkippingEmpty(accumulatedParts, incoming) ==
    LET n == Len(accumulatedParts)
        lastPart == IF n > 0 THEN <<accumulatedParts[n]>> ELSE << >>
    IN  IF /\ ~Truthy(incoming.text) /\ ~Truthy(incoming.thought)
           /\ ~Truthy(incoming.executableCode)
           /\ ~Truthy(incoming.codeExecutionResult)
           /\ ~Truthy(incoming.inlineData)
        THEN accumulatedParts
        ELSE IF isSameType(lastPart, incoming)
        THEN [accumulatedParts EXCEPT ![n] = appendText(lastPart[1], incoming)]
        ELSE Append(accumulatedParts, incoming)

\* lines 417-433: one iteration of the loop over incomingParts
mergePart(accumulatedParts, incoming) ==
    LET n == Len(accumulatedParts)
        lastPart == IF n > 0 THEN <<accumulatedParts[n]>> ELSE << >>
    IN  IF isSameType(lastPart, incoming)
        THEN [accumulatedParts EXCEPT ![n] = appendText(lastPart[1], incoming)]
        ELSE Append(accumulatedParts, incoming)

\* lines 416-434: for (const incoming of incomingParts) { ... }
\* A variant of mergeParts that merges the parts of one chunk among
\* themselves only, as a loop over a list that is fresh for every chunk.
mergePartsPerChunk(accumulatedParts, incomingParts) ==
    LET RECURSIVE loop(_, _)
        loop(blocks, parts) ==
            IF parts = << >> THEN blocks
            ELSE loop(mergePart(blocks, Head(parts)), Tail(parts))
    IN  accumulatedParts \o loop(<< >>, incomingParts)

RECURSIVE mergeParts(_, _)
mergeParts(accumulatedParts, incomingParts) ==
    IF incomingParts = << >> THEN accumulatedParts
    ELSE mergeParts(mergePart(accumulatedParts, Head(incomingParts)),
                    Tail(incomingParts))

\* line 441: JSON.parse(JSON.stringify(accumulatedParts)) writes every present
\* field of every part and reads it back; an undefined field is not written.
jsonValue(v) ==
    IF v = Undef THEN Undef
    ELSE IF v[1] = "object" THEN Obj(v[2], v[3])
    ELSE <<v[1], v[2]>>

jsonCopy(parts) ==
    [i \in 1..Len(parts) |->
        [text |-> jsonValue(parts[i].text),
         thought |-> jsonValue(parts[i].thought),
         executableCode |-> jsonValue(parts[i].executableCode),
         codeExecutionResult |-> jsonValue(parts[i].codeExecutionResult),
         inlineData |-> jsonValue(parts[i].inlineData)]]

(***************************************************************************)
(* The attached image (ChatMessageItem.tsx lines 377-390, gemini.ts lines  *)
(* 26-45).  The image is undefined or a string; the code looks into the    *)
(* string, so it is held as the sequence of its characters.  The empty     *)
(* string and undefined are both << >>: the code only tests if (image).    *)
(***************************************************************************)
\* the characters of "data:", ";base64,", "application/octet-stream" and
\* "image/jpeg"
DataPrefix == <<"d", "a", "t", "a", ":">>

Base64Mark == <<";", "b", "a", "s", "e", "6", "4", ",">>

OctetStream ==
    <<"a", "p", "p", "l", "i", "c", "a", "t", "i", "o", "n", "/", "o", "c", "t", "e", "t">>
    \o <<"-", "s", "t", "r", "e", "a", "m">>

ImageJpeg == <<"i", "m", "a", "g", "e", "/", "j", "p", "e", "g">>

\* the characters the . of a regular expression does not match
LineTerminators == { "\n", "\r" }

\* the string of a sequence of characters
RECURSIVE String(_)
String(cs) == IF cs = << >> THEN "" ELSE Head(cs) \o String(Tail(cs))

\* image.match(/^data:(.+);base64,(.+)$/) (line 381, gemini.ts line 30):
\* null (<< >>) or the two groups.  The first group is greedy, so it ends
\* at the last ";base64," that leaves both groups non-empty.
match(image) ==
    LET n == Len(image)
        marks == { k \in 7..n :
                     /\ k + 8 <= n
                     /\ SubSeq(image, k, k + 7) = Base64Mark
                     /\ \A i \in (6..(k - 1)) \cup ((k + 8)..n) :
                            image[i] \notin LineTerminators }
        k == CHOOSE m \in marks : \A o \in marks : o <= m
    IN  IF n >= 5 /\ SubSeq(image, 1, 5) = DataPrefix /\ marks # { }
        THEN <<SubSeq(image, 6, k - 1), SubSeq(image, k + 8, n)>>
        ELSE << >>

\* lines 385 and 33-36: application/octet-stream becomes image/jpeg
normalizeMime(mimeType) ==
    IF mimeType = OctetStream THEN ImageJpeg ELSE mimeType

\* lines 378-390: imagePart, null (<< >>) or <<the part>>
imagePart(image) ==
    IF image # << >> /\ match(image) # << >>
    THEN <<ImagePart(String(normalizeMime(match(image)[1])),
                     String(match(image)[2]))>>
    ELSE << >>

\* gemini.ts lines 26-45: the parts sendMessageStream sends for a message
sendMessageStreamParts(message, image) ==
    <<TextPart(message)>> \o
    (IF image # << >> /\ match(image) # << >>
     THEN <<ImagePart(String(normalizeMime(match(image)[1])),
                      String(match(image)[2]))>>
     ELSE << >>)

(***************************************************************************)
(* Inputs.                                                                 *)
(***************************************************************************)
\* The parts the provider may put in a chunk: one data field each, a thought
\* either flagged (thought: true, content in text) or carried as a string.
Frags ==
    { TextPart("Hel"), TextPart("lo "), TextPart("world"), TextPart(""),
      ThoughtFlagPart("step 1"), ThoughtStringPart("**Plan**: crop"),
      CodePart("python", "crop(img)"), ResultPart("OUTCOME_OK", "done"),
      ImagePart("image/png", "AAAA"), NoFields }

\* the sequences of at most n elements of S
SeqsUpTo(S, n) == UNION { [1..k -> S] : k \in 0..n }

Arr(parts) == <<"array", parts>>

\* chunk.candidates?.[0]?.content?.parts (line 413) when it is an array: of
\* at most n parts of F, none included (a chunk without the field, which
\* skips the loop and the update, is among LifeChunks)
Chunks(F, n) == { Arr(q) : q \in SeqsUpTo(F, n) }

\* Every shape of part: each field absent or present, text and a string
\* thought empty or not, thought also true or false.
Shapes ==
    [text : { Undef, Str(""), Str("a") },
     thought : { Undef, True, False, Str(""), Str("p") },
     executableCode : { Undef, Obj("python", "c") },
     codeExecutionResult : { Undef, Obj("OUTCOME_OK", "o") },
     inlineData : { Undef, Obj("image/png", "AAAA") }]

\* The chunks of the runs of Spec: no parts, one part, two parts.
LifeChunks ==
    { Undef, Arr(<<TextPart("Hel")>>),
      Arr(<<ThoughtFlagPart("step 1"), TextPart("lo ")>>) }

\* The images a user may attach: data URLs as FileReader.readAsDataURL
\* (part_000 line 47) writes them, with no mime type, the generic one, or an
\* image type, and a string that is not a data URL.
ImagePng == <<"i", "m", "a", "g", "e", "/", "p", "n", "g">>

Mimes == { << >>, OctetStream, ImageJpeg, ImagePng }

Payloads == { <<"A", "A", "A", "A">>, <<"/", "9", "j", "/">> }

DataUrl(mimeType, payload) ==
    DataPrefix \o mimeType \o Base64Mark \o payload

Images ==
    { DataUrl(m, p) : m \in Mimes, p \in Payloads }
    \cup { <<"a", ".", "p", "n", "g">> }

\* What the user may have typed into the textarea.
Inputs == { "", " ", "hi" }

\* String.prototype.trim on the strings of Inputs (part_000 lines 22-23).
trim(s) == IF s \in { "", " " } THEN "" ELSE s

(***************************************************************************)
(* Messages (src/types.ts, ChatMessage).                                   *)
(***************************************************************************)
Id(prefix, t) == <<prefix, t>>

ChatMessage(id, role, parts, timestamp) ==
    [id |-> id, role |-> role, parts |-> parts, timestamp |-> timestamp]

ErrorText == "I encountered an error. Please try again."

\* lines 436-450: the updater given to setMessages for every chunk with parts
updateModelMessage(prev, modelMessageId, accumulatedParts) ==
    LET n == Len(prev)
        sameId == n > 0 /\ prev[n].id = modelMessageId
        updatedModelMessage ==
            ChatMessage(modelMessageId, "model", jsonCopy(accumulatedParts),
                        IF sameId THEN prev[n].timestamp ELSE now)
    IN  IF sameId
        THEN [prev EXCEPT ![n] = updatedModelMessage]
        ELSE Append(prev, updatedModelMessage)

(***************************************************************************)
(* The state after ChatInterface is mounted (lines 351-352).               *)
(***************************************************************************)
Init ==
    /\ messages = << >>
    /\ isLoading = FALSE
    /\ turns = << >>
    /\ now = 0
    /\ transportCalls = 0

(***************************************************************************)
(* handleSend (lines 374-466), up to its first await: the guard, the user  *)
(* message, setIsLoading(true) and the call of sendMessageStream.          *)
(* A record of turns holds the locals of one running call and pc, where it *)
(* is suspended.  Three fields record what happened to it: chunks counts   *)
(* the chunks its stream delivered, received lists the parts of these      *)
(* chunks in arrival order, updates counts its calls of setMessages.       *)
(* While the call of sendMessageStream is pending, image holds its image   *)
(* argument and request the parts it gives to the provider.                *)
(***************************************************************************)
NewTurn ==
    [pc |-> "awaiting", modelMessageId |-> Undef, accumulatedParts |-> << >>,
     incomingParts |-> Undef, chunks |-> 0, received |-> << >>, updates |-> 0,
     image |-> Undef, request |-> << >>]

\* A variant of handleSend without the guard of line 375.
handleSendUnguarded(text, image) ==
    /\ messages' = Append(messages,
           ChatMessage(Id("user", now), "user",
                       imagePart(image) \o <<TextPart(text)>>, now))
    /\ isLoading' = TRUE
    /\ transportCalls' = transportCalls + 1
    /\ turns' = Append(turns,
           [NewTurn EXCEPT !.image = image,
                           !.request = sendMessageStreamParts(text, image)])
    /\ UNCHANGED now

handleSend(text, image) ==
    IF isLoading
    THEN UNCHANGED vars
    ELSE /\ messages' = Append(messages,
                ChatMessage(Id("user", now), "user",
                            imagePart(image) \o <<TextPart(text)>>, now))
         /\ isLoading' = TRUE
         /\ transportCalls' = transportCalls + 1
         /\ turns' = Append(turns,
                [NewTurn EXCEPT !.image = image,
                                !.request = sendMessageStreamParts(text, image)])
         /\ UNCHANGED now

\* ChatInput.handleSubmit (part_000 lines 20-30); disabled is isLoading.
handleSubmit(input, selectedImage) ==
    IF (trim(input) # "" \/ selectedImage # Undef) /\ ~isLoading
    THEN handleSend(trim(input), selectedImage)
    ELSE UNCHANGED vars

\* handleExampleClick (lines 468-470); the cards show while messages is empty
\* (line 507).  The image of an example is an https URL, not a data URL.
handleExampleClick ==
    /\ messages = << >>
    /\ handleSend("How many gears are there? Zoom in to see.", Undef)

(***************************************************************************)
(* The rest of handleSend, one action per resumption after an await.       *)
(***************************************************************************)
\* A variant of streamOpens in which the clock has not advanced since the
\* call of sendMessageStream.
streamOpensSameInstant(t) ==
    /\ turns[t].pc = "awaiting"
    /\ now' = now
    /\ turns' = [turns EXCEPT ![t].pc = "streaming",
                              ![t].modelMessageId = Id("model", now'),
                              ![t].accumulatedParts = << >>,
                              ![t].image = Undef,
                              ![t].request = << >>]
    /\ UNCHANGED <<messages, isLoading, transportCalls>>

\* lines 408-410: sendMessageStream resolved.  The request went over the
\* network, so the clock has advanced since the call.
streamOpens(t) ==
    /\ turns[t].pc = "awaiting"
    /\ now' = now + 1
    /\ turns' = [turns EXCEPT ![t].pc = "streaming",
                              ![t].modelMessageId = Id("model", now'),
                              ![t].accumulatedParts = << >>,
                              ![t].image = Undef,
                              ![t].request = << >>]
    /\ UNCHANGED <<messages, isLoading, transportCalls>>

\* lines 412-453: one iteration of for await (const chunk of stream)
streamChunk(t, incomingParts) ==
    /\ turns[t].pc = "streaming"
    /\ IF incomingParts # Undef
       THEN LET accumulatedParts ==
                    mergeParts(turns[t].accumulatedParts, incomingParts[2])
            IN  /\ turns' = [turns EXCEPT
                        ![t].accumulatedParts = accumulatedParts,
                        ![t].incomingParts = incomingParts,
                        ![t].chunks = @ + 1,
                        ![t].received = @ \o incomingParts[2],
                        ![t].updates = @ + 1]
                /\ messages' = updateModelMessage(messages,
                        turns[t].modelMessageId, accumulatedParts)
       ELSE /\ turns' = [turns EXCEPT ![t].incomingParts = incomingParts,
                                      ![t].chunks = @ + 1]
            /\ UNCHANGED messages
    /\ UNCHANGED <<isLoading, now, transportCalls>>

\* A variant of streamEnds without the finally block of lines 463-465.
streamEndsKeepsLoading(t) ==
    /\ turns[t].pc = "streaming"
    /\ turns' = [turns EXCEPT ![t].pc = "completed",
                              ![t].accumulatedParts = << >>,
                              ![t].incomingParts = Undef,
                              ![t].received = << >>]
    /\ UNCHANGED <<messages, isLoading, now, transportCalls>>

\* the stream ends: the loop exits, finally runs (lines 463-465)
streamEnds(t) ==
    /\ turns[t].pc = "streaming"
    /\ turns' = [turns EXCEPT ![t].pc = "completed",
                              ![t].accumulatedParts = << >>,
                              ![t].incomingParts = Undef,
                              ![t].received = << >>]
    /\ isLoading' = FALSE
    /\ UNCHANGED <<messages, now, transportCalls>>

\* A variant of streamFails whose catch puts the error message in the place
\* of the last message, as [...prev.slice(0, -1), errorMessage] would.
streamFailsReplacingLast(t) ==
    /\ turns[t].pc \in { "awaiting", "streaming" }
    /\ messages' = [messages EXCEPT ![Len(messages)] =
           ChatMessage(Id("error", now), "model", <<TextPart(ErrorText)>>, now)]
    /\ turns' = [turns EXCEPT ![t].pc = "failed",
                              ![t].accumulatedParts = << >>,
                              ![t].incomingParts = Undef,
                              ![t].received = << >>,
                              ![t].image = Undef,
                              ![t].request = << >>]
    /\ isLoading' = FALSE
    /\ UNCHANGED <<now, transportCalls>>

\* sendMessageStream rejects or the stream raises: catch (lines 454-462),
\* then finally (lines 463-465)
streamFails(t) ==
    /\ turns[t].pc \in { "awaiting", "streaming" }
    /\ messages' = Append(messages,
           ChatMessage(Id("error", now), "model", <<TextPart(ErrorText)>>, now))
    /\ turns' = [turns EXCEPT ![t].pc = "failed",
                              ![t].accumulatedParts = << >>,
                              ![t].incomingParts = Undef,
                              ![t].received = << >>,
                              ![t].image = Undef,
                              ![t].request = << >>]
    /\ isLoading' = FALSE
    /\ UNCHANGED <<now, transportCalls>>

\* clearChat (lines 472-474); the Reset button shows while messages is not
\* empty (line 492)
clearChat ==
    /\ messages # << >>
    /\ messages' = << >>
    /\ UNCHANGED <<isLoading, turns, now, transportCalls>>

\* time passes
Tick ==
    /\ now' = now + 1
    /\ UNCHANGED <<messages, isLoading, turns, transportCalls>>

(***************************************************************************)
(* Spec: the whole component, any number of turns up to MaxTurns.          *)
(***************************************************************************)
RECURSIVE Delivered(_)
Delivered(n) == IF n = 0 THEN 0 ELSE turns[n].chunks + Delivered(n - 1)

Next ==
    \/ /\ isLoading \/ Len(turns) < MaxTurns
       /\ \E input \in Inputs : handleSubmit(input, Undef)
    \/ /\ isLoading \/ Len(turns) < MaxTurns
       /\ handleExampleClick
    \/ /\ now < MaxNow
       /\ \E t \in 1..Len(turns) : streamOpens(t)
    \/ /\ Delivered(Len(turns)) < MaxChunks
       /\ \E t \in 1..Len(turns) : \E c \in LifeChunks : streamChunk(t, c)
    \/ \E t \in 1..Len(turns) : streamEnds(t)
    \/ \E t \in 1..Len(turns) : streamFails(t)
    \/ clearChat
    \/ now < MaxNow /\ Tick

Spec == Init /\ [][Next]_vars

(***************************************************************************)
(* SpecLive: at most LiveMaxTurns turns of at most LiveMaxChunks chunks,   *)
(* the clock moved by the network only, in the runs in which the transport *)
(* keeps its promise: every stream that was asked for eventually ends or   *)
(* raises.  A stream that is awaited can raise, one that is open can end   *)
(* or raise, so the step is enabled for as long as the turn is in          *)
(* progress.                                                               *)
(***************************************************************************)
NextLive ==
    \/ /\ isLoading \/ Len(turns) < LiveMaxTurns
       /\ \E input \in Inputs : handleSubmit(input, Undef)
    \/ \E t \in 1..Len(turns) : streamOpens(t)
    \/ \E t \in 1..Len(turns) :
          /\ turns[t].pc = "streaming"
          /\ turns[t].chunks < LiveMaxChunks
          /\ \E c \in LifeChunks : streamChunk(t, c)
    \/ \E t \in 1..Len(turns) : streamEnds(t)
    \/ \E t \in 1..Len(turns) : streamFails(t)
    \/ clearChat

TransportSettles == \E t \in 1..Len(turns) : streamEnds(t) \/ streamFails(t)

SpecLive == Init /\ [][NextLive]_vars /\ WF_vars(TransportSettles)

(***************************************************************************)
(* SpecAcc: one turn, its stream delivering arrays of any parts of Frags,  *)
(* at most AccMaxParts parts in at most AccMaxChunks chunks.               *)
(***************************************************************************)
NextAcc ==
    \/ turns = << >> /\ handleSubmit("hi", Undef)
    \/ \E t \in 1..Len(turns) : streamOpens(t)
    \/ \E t \in 1..Len(turns) :
          /\ turns[t].pc = "streaming"
          /\ turns[t].chunks < AccMaxChunks
          /\ \E c \in Chunks(Frags, AccMaxParts - Len(turns[t].received)) :
                streamChunk(t, c)
    \/ \E t \in 1..Len(turns) : streamEnds(t)
    \/ \E t \in 1..Len(turns) : streamFails(t)

SpecAcc == Init /\ [][NextAcc]_vars

(***************************************************************************)
(* SpecShapes: one turn, its stream delivering parts of any shape, one     *)
(* part a chunk, at most ShapeMaxChunks chunks.                            *)
(***************************************************************************)
NextShapes ==
    \/ turns = << >> /\ handleSubmit("hi", Undef)
    \/ \E t \in 1..Len(turns) : streamOpens(t)
    \/ \E t \in 1..Len(turns) :
          /\ turns[t].pc = "streaming"
          /\ turns[t].chunks < ShapeMaxChunks
          /\ \E part \in Shapes : streamChunk(t, Arr(<<part>>))
    \/ \E t \in 1..Len(turns) : streamEnds(t)
    \/ \E t \in 1..Len(turns) : streamFails(t)

SpecShapes == Init /\ [][NextShapes]_vars

(***************************************************************************)
(* SpecImage: at most ImgMaxTurns turns, the user attaching any image of   *)
(* Images or none, a stream delivering at most ImgMaxChunks chunks.        *)
(***************************************************************************)
NextImage ==
    \/ /\ isLoading \/ Len(turns) < ImgMaxTurns
       /\ \E input \in Inputs, image \in Images \cup { Undef } :
              handleSubmit(input, image)
    \/ \E t \in 1..Len(turns) : streamOpens(t)
    \/ \E t \in 1..Len(turns) :
          /\ turns[t].pc = "streaming"
          /\ turns[t].chunks < ImgMaxChunks
          /\ \E c \in LifeChunks : streamChunk(t, c)
    \/ \E t \in 1..Len(turns) : streamEnds(t)
    \/ \E t \in 1..Len(turns) : streamFails(t)

SpecImage == Init /\ [][NextImage]_vars

(***************************************************************************)
(* The vocabulary of the properties: the kind and the content of a part as *)
(* the design document defines them (by the presence of a field, not by    *)
(* its truth value), and the steps of a behaviour that process a chunk.    *)
(***************************************************************************)
Present(v) == v # Undef

Kind(part) ==
    IF part.thought = True \/ (IsString(part.thought) /\ StrOf(part.thought) # "")
    THEN "Thought"
    ELSE IF Present(part.executableCode) THEN "ExecutableCode"
    ELSE IF Present(part.codeExecutionResult) THEN "CodeExecutionResult"
    ELSE IF Present(part.text) THEN "Text"
    ELSE IF Present(part.inlineData) THEN "InlineImage"
    ELSE "Unknown"

Content(part) ==
    IF Kind(part) = "Thought" /\ IsString(part.thought) THEN StrOf(part.thought)
    ELSE IF Present(part.text) THEN StrOf(part.text)
    ELSE ""

Mergeable == { "Text", "Thought" }

NonMergeable == { "ExecutableCode", "CodeExecutionResult", "InlineImage" }

Last(q) == q[Len(q)]

\* the step processes a chunk with parts for turn t
ChunkStep(t) ==
    /\ Len(turns') = Len(turns)
    /\ turns[t].pc = "streaming"
    /\ turns'[t].pc = "streaming"
    /\ turns'[t].chunks = turns[t].chunks + 1
    /\ turns'[t].incomingParts # Undef

\* the block lists the loop goes through: Trace(acc, parts)[i] is the list
\* before the i-th part, Trace(acc, parts)[i + 1] the list after it
RECURSIVE Trace(_, _)
Trace(accumulatedParts, parts) ==
    IF parts = << >> THEN <<accumulatedParts>>
    ELSE <<accumulatedParts>>
         \o Trace(mergePart(accumulatedParts, Head(parts)), Tail(parts))

\* a property P(before, part, after) of every part of every chunk processed
EveryPart(P(_, _, _)) ==
    \A t \in 1..Len(turns) :
        ChunkStep(t) =>
            LET parts == turns'[t].incomingParts[2]
                lists == Trace(turns[t].accumulatedParts, parts)
            IN  /\ turns'[t].accumulatedParts = lists[Len(parts) + 1]
                /\ \A i \in 1..Len(parts) : P(lists[i], parts[i], lists[i + 1])

Streaming == { t \in 1..Len(turns) : turns[t].pc = "streaming" }

(***************************************************************************)
(* C1.  Merge-adjacency: the accumulated block list of a turn, and every   *)
(* published block list, never holds two consecutive Text blocks nor two   *)
(* consecutive Thought blocks, the parts with an empty text included.      *)
(* The code does not keep it: a part whose text is "" is never merged.     *)
(***************************************************************************)
NoAdjacentMergeable(blocks) ==
    \A i \in 1..(Len(blocks) - 1) :
        ~(Kind(blocks[i]) \in Mergeable /\ Kind(blocks[i]) = Kind(blocks[i + 1]))

C1_MergeAdjacency ==
    /\ \A t \in 1..Len(turns) : NoAdjacentMergeable(turns[t].accumulatedParts)
    /\ \A m \in 1..Len(messages) : NoAdjacentMergeable(messages[m].parts)

(***************************************************************************)
(* C2.  No delta is lost: when a Thought part that carries its content in  *)
(* a string-valued thought field arrives after a Thought block, no block   *)
(* is added and the content of the block becomes the old content followed  *)
(* by that string.  The code does not do it: it appends incoming.text only.*)
(***************************************************************************)
ThoughtStringMerged(before, part, after) ==
    (/\ before # << >>
     /\ Kind(Last(before)) = "Thought"
     /\ Kind(part) = "Thought"
     /\ IsString(part.thought))
    => /\ Len(after) = Len(before)
       /\ Content(Last(after)) = Content(Last(before)) \o StrOf(part.thought)

C2_ThoughtDeltaKept == [][EveryPart(ThoughtStringMerged)]_vars

(***************************************************************************)
(* C3.  Concatenation of Text: while every part a turn has received is a   *)
(* Text part with a non-empty text, in however many chunks they came, the  *)
(* accumulated and the published block list are one Text block whose       *)
(* content is the texts in arrival order, concatenated.                    *)
(***************************************************************************)
IsNonEmptyText(part) ==
    /\ Truthy(part.text)
    /\ part = TextPart(StrOf(part.text))

RECURSIVE ConcatText(_)
ConcatText(parts) ==
    IF parts = << >> THEN ""
    ELSE StrOf(Head(parts).text) \o ConcatText(Tail(parts))

C3_TextConcatenation ==
    \A t \in Streaming :
        (/\ turns[t].received # << >>
         /\ \A i \in 1..Len(turns[t].received) :
                IsNonEmptyText(turns[t].received[i]))
        => /\ turns[t].accumulatedParts =
                  <<TextPart(ConcatText(turns[t].received))>>
           /\ messages # << >>
           /\ Last(messages).id = turns[t].modelMessageId
           /\ Last(messages).parts = <<TextPart(ConcatText(turns[t].received))>>

C3_Witness ==
    \E t \in Streaming :
        /\ turns[t].received =
               <<TextPart("Hel"), TextPart("lo "), TextPart("world")>>
        /\ turns[t].chunks = 2

(***************************************************************************)
(* C4.  Merges happen only between two Text or two Thought parts: a part   *)
(* of kind ExecutableCode, CodeExecutionResult or InlineImage, and a part  *)
(* whose kind differs from the kind of the last block, is appended as a    *)
(* new last block, unchanged; and no later part changes a block of one of  *)
(* the three kinds that never merge.                                       *)
(***************************************************************************)
AppendedUnlessSameMergeable(before, part, after) ==
    /\ (\/ Kind(part) \in NonMergeable
        \/ before # << >> /\ Kind(part) # Kind(Last(before)))
       => after = Append(before, part)
    /\ \A j \in 1..Len(before) :
           Kind(before[j]) \in NonMergeable => after[j] = before[j]

C4_OnlySameKindMerges == [][EveryPart(AppendedUnlessSameMergeable)]_vars

C4_Witness ==
    \E t \in Streaming :
        turns[t].accumulatedParts =
            <<ThoughtFlagPart("step 1"), TextPart("Hel"),
              CodePart("python", "crop(img)")>>

(***************************************************************************)
(* C5.  As claimed: a part that matches no rule of the classifier adds no  *)
(* block to the accumulated block list.  The code appends it.              *)
(***************************************************************************)
UnknownDropped(before, part, after) ==
    Kind(part) = "Unknown" => after = before

C5_UnknownDropped == [][EveryPart(UnknownDropped)]_vars

(***************************************************************************)
(* C5, amended.  A part that matches no rule of the classifier is appended *)
(* to the accumulated block list as a block of its own, whatever the last  *)
(* block is; renderPart shows nothing for it, and the turn goes on.        *)
(***************************************************************************)
UnknownKeptNotShown(before, part, after) ==
    Kind(part) = "Unknown"
    => /\ after = Append(before, part)
       /\ renderPart(Last(after)) = "null"

C5_UnknownKeptNotShown == [][EveryPart(UnknownKeptNotShown)]_vars

C5_Witness ==
    \E t \in Streaming :
        /\ turns[t].accumulatedParts = <<TextPart("Hel"), NoFields, TextPart("lo ")>>
        /\ Last(messages).parts = turns[t].accumulatedParts

(***************************************************************************)
(* C10.  Empty-fragment presence: when the only part a turn has received   *)
(* is {text: ""}, the accumulated block list is one Text block with empty  *)
(* content, and the last message is the model message of the turn, with    *)
(* this one block: its block list is not empty.                            *)
(***************************************************************************)
C10_EmptyTextPresence ==
    \A t \in Streaming :
        turns[t].received = <<TextPart("")>>
        => /\ turns[t].accumulatedParts = <<TextPart("")>>
           /\ Kind(turns[t].accumulatedParts[1]) = "Text"
           /\ Content(turns[t].accumulatedParts[1]) = ""
           /\ messages # << >>
           /\ Last(messages).id = turns[t].modelMessageId
           /\ Last(messages).role = "model"
           /\ Last(messages).parts = <<TextPart("")>>
           /\ Last(messages).parts # << >>

C10_Witness ==
    \E t \in Streaming : turns[t].received = <<TextPart("")>>

(***************************************************************************)
(* C6.  As claimed: renderPart gives every block the kind of the first     *)
(* rule that matches by the presence of a field (Thought, ExecutableCode,  *)
(* CodeExecutionResult, Text, InlineImage, else Unknown), so a block whose *)
(* only field is text, even "", is Text.  The code shows nothing for it.   *)
(***************************************************************************)
KindOfRender(r) == IF r = "null" THEN "Unknown" ELSE r

PublishedBlocks ==
    UNION { { messages[m].parts[i] : i \in 1..Len(messages[m].parts) } :
            m \in { k \in 1..Len(messages) : messages[k].role = "model" } }

C6_RuleOrderByPresence ==
    \A block \in PublishedBlocks : KindOfRender(renderPart(block)) = Kind(block)

(***************************************************************************)
(* C6, amended.  renderPart gives every block the kind of the first rule   *)
(* that matches, in the order Thought, ExecutableCode, CodeExecution-      *)
(* Result, Text, InlineImage, else nothing, where Thought matches a        *)
(* thought that is true or any string ("" included), Text matches a text   *)
(* that is a non-empty string, and the three others match a present field. *)
(* So a block with exactly one field set gets the kind of that field,      *)
(* except that text "" and thought false get none.                         *)
(***************************************************************************)
KindByTruth(part) ==
    IF part.thought = True \/ IsString(part.thought) THEN "Thought"
    ELSE IF Present(part.executableCode) THEN "ExecutableCode"
    ELSE IF Present(part.codeExecutionResult) THEN "CodeExecutionResult"
    ELSE IF Present(part.text) /\ part.text # Str("") THEN "Text"
    ELSE IF Present(part.inlineData) THEN "InlineImage"
    ELSE "Unknown"

FieldsSet(part) ==
    { f \in { "text", "thought", "executableCode", "codeExecutionResult",
              "inlineData" } : Present(part[f]) }

C6_RuleOrderByTruth ==
    \A block \in PublishedBlocks :
        /\ KindOfRender(renderPart(block)) = KindByTruth(block)
        /\ (Cardinality(FieldsSet(block)) = 1
            /\ block # TextPart("")
            /\ block.thought # False)
           => renderPart(block) # "null"
        /\ block = TextPart("") => renderPart(block) = "null"

C6_Witness ==
    \E block \in PublishedBlocks :
        /\ block.text = Str("a")
        /\ Present(block.executableCode)
        /\ Present(block.inlineData)
        /\ block.thought = Undef

(***************************************************************************)
(* C7.  Replace-not-append: the first store update of a turn appends the   *)
(* model message, every later one replaces the last message and keeps its  *)
(* timestamp, and the conversation then holds exactly one message with the *)
(* id of the turn.  The code does not keep it when the conversation is     *)
(* reset between two chunks: the next update appends again.                *)
(***************************************************************************)
WithId(msgs, id) == { i \in 1..Len(msgs) : msgs[i].id = id }

C7_ReplaceNotAppend ==
    [][\A t \in 1..Len(turns) :
          ChunkStep(t) =>
             /\ IF turns[t].updates = 0
                THEN messages' = Append(messages, Last(messages'))
                ELSE /\ messages # << >>
                     /\ Len(messages') = Len(messages)
                     /\ \A i \in 1..(Len(messages) - 1) : messages'[i] = messages[i]
                     /\ Last(messages').timestamp = Last(messages).timestamp
             /\ Last(messages').id = turns[t].modelMessageId
             /\ Last(messages').parts = turns'[t].accumulatedParts
             /\ Cardinality(WithId(messages', turns[t].modelMessageId)) = 1]_vars

(***************************************************************************)
(* C8.  TransportError: when the call of the transport or the stream       *)
(* fails, before or after chunks were accepted, one model message with a   *)
(* single Text block is appended, every message already there is left as   *)
(* it is, the turn ends (it is failed for good and isLoading is false),    *)
(* and the transport is not called again: one call a turn.                 *)
(***************************************************************************)
FailStep(t) ==
    /\ Len(turns') = Len(turns)
    /\ turns[t].pc \in { "awaiting", "streaming" }
    /\ turns'[t].pc = "failed"

C8_TransportError ==
    /\ [][\A t \in 1..Len(turns) :
             /\ FailStep(t) =>
                   /\ Len(messages') = Len(messages) + 1
                   /\ \A i \in 1..Len(messages) : messages'[i] = messages[i]
                   /\ Last(messages').role = "model"
                   /\ Len(Last(messages').parts) = 1
                   /\ Last(messages').parts[1] = TextPart(ErrorText)
                   /\ Kind(Last(messages').parts[1]) = "Text"
                   /\ isLoading' = FALSE
                   /\ transportCalls' = transportCalls
             /\ (turns[t].pc = "failed" /\ Len(turns') >= t)
                   => turns'[t] = turns[t]]_vars
    /\ [](transportCalls = Len(turns))

C8_Witness ==
    /\ Len(messages) = 5
    /\ messages[2].id[1] = "model"
    /\ messages[4].id[1] = "model"
    /\ messages[5].id[1] = "error"
    /\ turns[2].pc = "failed"

(***************************************************************************)
(* C9.  Single in-flight turn: at most one turn is in progress, isLoading  *)
(* is true while it is, at most one model message is open for replacement, *)
(* and no step taken while isLoading is true (a submission among them)     *)
(* starts a turn, calls the transport or adds a user message.              *)
(***************************************************************************)
InProgress == { t \in 1..Len(turns) : turns[t].pc \in { "awaiting", "streaming" } }

OpenMessages ==
    { <<t, i>> \in Streaming \X (1..Len(messages)) :
         messages[i].id = turns[t].modelMessageId }

UserMessages(msgs) == { i \in 1..Len(msgs) : msgs[i].role = "user" }

C9_SingleInFlight ==
    /\ [](/\ Cardinality(InProgress) <= 1
          /\ InProgress # { } => isLoading
          /\ Cardinality(OpenMessages) <= 1)
    /\ [][isLoading =>
             /\ Len(turns') = Len(turns)
             /\ transportCalls' = transportCalls
             /\ Cardinality(UserMessages(messages'))
                    <= Cardinality(UserMessages(messages))]_vars

C9_Witness ==
    /\ isLoading
    /\ messages = << >>
    /\ \E t \in Streaming : turns[t].updates > 0

(***************************************************************************)
(* C11.  Image attachment mime normalization: when the user submits a data *)
(* URL data:<mimeType>;base64,<payload>, the user message and the request  *)
(* each carry exactly one InlineImage part, with the payload intact and    *)
(* the mime type image/jpeg if <mimeType> is empty or is                   *)
(* application/octet-stream, and <mimeType> unchanged otherwise.           *)
(***************************************************************************)
\* a step that accepts a submission
SendStep == Len(turns') = Len(turns) + 1

InlineImages(parts) == SelectSeq(parts, LAMBDA part : Present(part.inlineData))

NormalizedMime(mimeType) ==
    IF mimeType = << >> \/ mimeType = OctetStream THEN ImageJpeg ELSE mimeType

C11_MimeNormalized ==
    [][SendStep =>
          \A m \in Mimes, p \in Payloads :
              Last(turns').image = DataUrl(m, p) =>
                  LET expected ==
                          <<ImagePart(String(NormalizedMime(m)), String(p))>>
                  IN  /\ InlineImages(Last(messages').parts) = expected
                      /\ InlineImages(Last(turns').request) = expected]_vars

(***************************************************************************)
(* C12.  Terminal states: once the stream of a turn has completed or       *)
(* failed, no step changes the blocks or the timestamp of the model        *)
(* message of that turn, or of an error message; such a message stays as   *)
(* it is, where it is, unless the conversation is emptied.  And the id a   *)
(* turn takes for its model message differs from every id in the           *)
(* conversation and from the id of every other turn.                       *)
(***************************************************************************)
Terminated == { t \in 1..Len(turns) : turns[t].pc \in { "completed", "failed" } }

\* the messages of the conversation that belong to a terminated turn
IsTerminal(message) ==
    \/ message.id[1] = "error"
    \/ \E t \in Terminated : message.id = turns[t].modelMessageId

OpenStep(t) == turns[t].pc = "awaiting" /\ turns'[t].pc = "streaming"

Accepted(t) == t <= Len(turns)

Settled(t) == t <= Len(turns) /\ turns[t].pc \in { "completed", "failed" }

C13_TurnTermination ==
    /\ [](isLoading <=> InProgress # { })
    /\ [][SendStep => isLoading' /\ Last(messages').role = "user"]_vars
    /\ \A t \in 1..LiveMaxTurns : Accepted(t) ~> Settled(t)
    /\ isLoading ~> ~isLoading

\* one turn has completed, the next has failed, and submission is enabled
C13_Witness ==
    /\ Len(turns) = 2
    /\ turns[1].pc = "completed"
    /\ turns[1].chunks > 0
    /\ turns[2].pc = "failed"
    /\ ~isLoading

(***************************************************************************)
(* C14.  Left fold, chunk-boundary independence: the block list a turn has *)
(* accumulated, and the one it has published, is the list that one pass    *)
(* over all the parts received so far gives, however these parts were      *)
(* grouped into chunks; so it is a function of the sequence of parts.      *)
(* And for every way to cut that sequence into F1 and F2, accumulating F1  *)
(* and then F2 onto the result gives the same list as accumulating         *)
(* F1 \o F2 in one step.                                                   *)
(***************************************************************************)
C14_ChunkBoundaryIndependence ==
    \A t \in Streaming :
        LET all == turns[t].received
            blocks == mergeParts(<< >>, all)
        IN  /\ turns[t].accumulatedParts = blocks
            /\ turns[t].updates > 0 =>
                   /\ Last(messages).id = turns[t].modelMessageId
                   /\ Last(messages).parts = jsonCopy(blocks)
            /\ \A k \in 0..Len(all) :
                   mergeParts(mergeParts(<< >>, SubSeq(all, 1, k)),
                              SubSeq(all, k + 1, Len(all))) = blocks

\* three chunks of one part each, the first two merged into one block
C14_Witness ==
    \E t \in Streaming :
        /\ turns[t].received =
               <<ThoughtFlagPart("step 1"), ThoughtFlagPart("step 1"),
                 TextPart("Hel")>>
        /\ turns[t].chunks = 3
        /\ turns[t].incomingParts = Arr(<<TextPart("Hel")>>)
        /\ Len(turns[t].accumulatedParts) = 2

(***************************************************************************)
(* C15.  Abandoning a turn by reset: the conversation is empty while a     *)
(* turn is streaming only after clearChat (the turn began by appending its *)
(* user message).  From then on the stream is discarded: the conversation  *)
(* stays empty until a submission is accepted, whatever chunk, end or      *)
(* error the stream brings, and a submission is accepted, that is,         *)
(* isLoading is false.  The code does not discard the stream: clearChat    *)
(* only empties the list.                                                  *)
(***************************************************************************)
ResetWhileStreaming == messages = << >> /\ Streaming # { }

C15_ResetAbandonsTurn ==
    /\ [](ResetWhileStreaming => ~isLoading)
    /\ [][ResetWhileStreaming => messages' = << >> \/ SendStep]_vars

====
